---- MODULE Spec2Model ----
(***************************************************************************)
(* Quote engine of DEX-Proj/backend (package api): CalculateQuoteV3 and    *)
(* the swap loop swapExactInput with computeSwapStep,                      *)
(* calculateMinAmountInToCrossTick, getNextInitializedTick, getTickInfo    *)
(* and the tick/price conversions.                                         *)
(*                                                                         *)
(* The source computes with big.Int at the fixed-point scale 2^96.  TLC    *)
(* has 32-bit integers, so the model keeps every formula as written but    *)
(* works at the scale 2^QBits.  math.Pow(1.0001, tick/2) is floating       *)
(* point; it is modelled by a three-level fixed-point table product that   *)
(* is non-decreasing in the tick and agrees with the exact power up to a   *)
(* few units of the last place, as the float64 result does at 2^96.        *)
(***************************************************************************)
EXTENDS Integers, Sequences, FiniteSets, TLC

\* Fraction bits of the fixed-point square-root price (96 in the source).
QBits == 8

\* Largest amountIn a request carries.
MaxAmountIn == 40

Q96 == 2 ^ QBits

maxIterations == 1000

FeeDenominator == 1000000

(***************************************************************************)
(* math.Pow(1.0001, tick/2) as fixed point with 10 fraction bits.          *)
(* tick = 4096*a + 64*b + c; PowCoarse[a] = 1.0001^(2048 a) * 2^10,        *)
(* PowMid[b] = (1.0001^(32 b) - 1) * 2^14, PowFine[c] =                    *)
(* (1.0001^(c/2) - 1) * 2^20.                                              *)
(***************************************************************************)
PowCoarseMin == -16

PowCoarse ==
  <<
     39, 47,
     58, 71, 88, 108, 132, 162, 199, 244,
     300, 368, 451, 554, 680, 834, 1024, 1257,
     1542, 1893, 2323, 2851, 3499, 4294, 5270, 6468,
     7938, 9742, 11956, 14673, 18007, 22100, 27122, 33286,
     40851, 50135, 61529, 75513, 92674, 113736, 139585, 171308,
     210240
  >>

PowMid ==
  <<
     0, 53, 105, 158, 211, 264, 318, 371,
     425, 479, 533, 587, 641, 696, 751, 806,
     861, 916, 971, 1027, 1083, 1139, 1195, 1251,
     1308, 1365, 1421, 1478, 1536, 1593, 1651, 1709,
     1767, 1825, 1883, 1942, 2000, 2059, 2118, 2178,
     2237, 2297, 2357, 2417, 2477, 2537, 2598, 2659,
     2720, 2781, 2843, 2904, 2966, 3028, 3090, 3153,
     3215, 3278, 3341, 3404, 3468, 3531, 3595, 3659
  >>

PowFine ==
  <<
     0, 52, 105, 157, 210, 262, 315, 367,
     419, 472, 524, 577, 629, 682, 734, 787,
     839, 892, 944, 997, 1049, 1102, 1154, 1206,
     1259, 1311, 1364, 1416, 1469, 1521, 1574, 1626,
     1679, 1731, 1784, 1837, 1889, 1942, 1994, 2047,
     2099, 2152, 2204, 2257, 2309, 2362, 2414, 2467,
     2519, 2572, 2625, 2677, 2730, 2782, 2835, 2887,
     2940, 2993, 3045, 3098, 3150, 3203, 3255, 3308
  >>

\* Ticks the power table covers.
MinTick == PowCoarseMin * 4096
MaxTick == (PowCoarseMin + Len(PowCoarse)) * 4096 - 1

Pow10001Half(tick) ==
  LET a  == tick \div 4096
      b  == (tick % 4096) \div 64
      c  == tick % 64
      x0 == PowCoarse[a - PowCoarseMin + 1]
      x1 == x0 + (x0 * PowMid[b + 1]) \div 16384
  IN  x1 + (x1 * PowFine[c + 1]) \div 1048576

\* getSqrtPriceAtTick: sqrtPrice = 1.0001^(tick/2) * Q96, truncated.
getSqrtPriceAtTick(tick) == (Pow10001Half(tick) * Q96) \div 1024

(***************************************************************************)
(* getTickAtSqrtPrice: int64(ln((sqrtPrice/Q96)^2) / ln(1.0001)).  The     *)
(* conversion int64() truncates toward zero: the floor of the logarithm    *)
(* for a price >= 1 and its ceiling for a price < 1.  A price of 0 skips   *)
(* the logarithm and yields tick 0.  The logarithm is found by bisection   *)
(* on the power table.                                                     *)
(***************************************************************************)
RECURSIVE FloorTick(_, _, _)
FloorTick(sqrtPriceX96, lo, hi) ==
  \* largest tick in lo..hi whose price is <= sqrtPriceX96 (lo qualifies)
  IF lo = hi THEN lo
  ELSE LET mid == (lo + hi + 1) \div 2
       IN  IF getSqrtPriceAtTick(mid) <= sqrtPriceX96
           THEN FloorTick(sqrtPriceX96, mid, hi)
           ELSE FloorTick(sqrtPriceX96, lo, mid - 1)

RECURSIVE CeilTick(_, _, _)
CeilTick(sqrtPriceX96, lo, hi) ==
  \* smallest tick in lo..hi whose price is >= sqrtPriceX96 (hi qualifies)
  IF lo = hi THEN lo
  ELSE LET mid == (lo + hi) \div 2
       IN  IF getSqrtPriceAtTick(mid) >= sqrtPriceX96
           THEN CeilTick(sqrtPriceX96, lo, mid)
           ELSE CeilTick(sqrtPriceX96, mid + 1, hi)

getTickAtSqrtPrice(sqrtPriceX96) ==
  IF sqrtPriceX96 <= 0 THEN 0
  ELSE IF sqrtPriceX96 >= Q96 THEN FloorTick(sqrtPriceX96, 0, MaxTick)
  ELSE CeilTick(sqrtPriceX96, MinTick, 0)

\* sqrtPriceX96ToPrice: (sqrtPriceX96 / Q96)^2 truncated to an integer;
\* the isToken0 argument is not used by the source.
sqrtPriceX96ToPrice(sqrtPriceX96, isToken0) ==
  (sqrtPriceX96 * sqrtPriceX96) \div (Q96 * Q96)

(***************************************************************************)
(* calculateMinAmountInToCrossTick.  big.Int division by zero panics; the  *)
(* callers test ThresholdPanics before they evaluate the quotient.         *)
(***************************************************************************)
ThresholdPanics(sqrtPriceCurrentX96, sqrtPriceNextX96, liquidity, zeroForOne) ==
  /\ liquidity # 0
  /\ zeroForOne
  /\ sqrtPriceCurrentX96 > sqrtPriceNextX96
  /\ (sqrtPriceCurrentX96 * sqrtPriceNextX96) \div Q96 = 0

calculateMinAmountInToCrossTick_unscaled(sqrtPriceCurrentX96, sqrtPriceNextX96, liquidity, zeroForOne) ==
  IF liquidity = 0 THEN 0
  ELSE IF zeroForOne
  THEN IF sqrtPriceCurrentX96 <= sqrtPriceNextX96 THEN 0
       ELSE (liquidity * (sqrtPriceCurrentX96 - sqrtPriceNextX96) * Q96)
              \div (sqrtPriceCurrentX96 * sqrtPriceNextX96)
  ELSE IF sqrtPriceNextX96 <= sqrtPriceCurrentX96 THEN 0
       ELSE (liquidity * (sqrtPriceNextX96 - sqrtPriceCurrentX96)) \div Q96

calculateMinAmountInToCrossTick_perGap(sqrtPriceCurrentX96, sqrtPriceNextX96, liquidity, zeroForOne) ==
  IF liquidity = 0 THEN 0
  ELSE IF zeroForOne
  THEN IF sqrtPriceCurrentX96 <= sqrtPriceNextX96 THEN 0
       ELSE (liquidity * Q96) \div (sqrtPriceCurrentX96 - sqrtPriceNextX96)
  ELSE IF sqrtPriceNextX96 <= sqrtPriceCurrentX96 THEN 0
       ELSE (liquidity * Q96) \div (sqrtPriceNextX96 - sqrtPriceCurrentX96)

calculateMinAmountInToCrossTick(sqrtPriceCurrentX96, sqrtPriceNextX96, liquidity, zeroForOne) ==
  IF liquidity = 0 THEN 0
  ELSE IF zeroForOne
  THEN IF sqrtPriceCurrentX96 <= sqrtPriceNextX96 THEN 0
       ELSE LET sqrtPriceDiff == sqrtPriceCurrentX96 - sqrtPriceNextX96
                denominator   == (sqrtPriceCurrentX96 * sqrtPriceNextX96) \div Q96
            IN  (liquidity * sqrtPriceDiff * Q96) \div denominator
  ELSE IF sqrtPriceNextX96 <= sqrtPriceCurrentX96 THEN 0
       ELSE LET sqrtPriceDiff == sqrtPriceNextX96 - sqrtPriceCurrentX96
            IN  (liquidity * sqrtPriceDiff) \div Q96

(***************************************************************************)
(* computeSwapStep: one step inside one tick interval.                     *)
(***************************************************************************)
StepResult(in, out, reached) ==
  [amountInConsumed |-> in, amountOut |-> out, reachedTarget |-> reached]

\* the price the step works out when it cannot reach the target
stepSqrtPriceNew(sqrtPriceCurrentX96, sqrtPriceTargetX96, liquidity, amountRemaining, zeroForOne) ==
  IF zeroForOne
  THEN LET denominator == liquidity * Q96 + amountRemaining * sqrtPriceCurrentX96
           numerator   == liquidity * sqrtPriceCurrentX96 * Q96
           new         == numerator \div denominator
       IN  IF new < sqrtPriceTargetX96 THEN sqrtPriceTargetX96 ELSE new
  ELSE LET sqrtPriceDiff == sqrtPriceTargetX96 - sqrtPriceCurrentX96
           actual        == (amountRemaining * Q96) \div liquidity
       IN  sqrtPriceCurrentX96
             + (IF actual > sqrtPriceDiff THEN sqrtPriceDiff ELSE actual)

\* the comparison that decides whether the step reaches its target
reachesTarget_strict(amountInNeeded, amountRemaining) ==
  amountInNeeded < amountRemaining

reachesTarget_reversed(amountInNeeded, amountRemaining) ==
  amountInNeeded >= amountRemaining

reachesTarget(amountInNeeded, amountRemaining) ==
  amountInNeeded <= amountRemaining

\* the input a step that stays inside the interval reports as consumed
stalledAmountIn_stale(amountInNeeded, amountRemaining) == amountInNeeded

stalledAmountIn(amountInNeeded, amountRemaining) == amountRemaining

StepPanics(sqrtPriceCurrentX96, sqrtPriceTargetX96, liquidity, amountRemaining, zeroForOne) ==
  /\ liquidity # 0
  /\ IF zeroForOne
     THEN /\ sqrtPriceCurrentX96 > sqrtPriceTargetX96
          /\ (sqrtPriceCurrentX96 * sqrtPriceTargetX96) \div Q96 = 0
     ELSE /\ sqrtPriceTargetX96 > sqrtPriceCurrentX96
          /\ LET sqrtPriceDiff == sqrtPriceTargetX96 - sqrtPriceCurrentX96
                 needed == (liquidity * sqrtPriceDiff) \div Q96
                 new == stepSqrtPriceNew(sqrtPriceCurrentX96, sqrtPriceTargetX96,
                                         liquidity, amountRemaining, zeroForOne)
             IN  IF reachesTarget(needed, amountRemaining)
                 THEN (sqrtPriceCurrentX96 * sqrtPriceTargetX96) \div Q96 = 0
                 ELSE (sqrtPriceCurrentX96 * new) \div Q96 = 0

computeSwapStep_spendsOnNothing(sqrtPriceCurrentX96, sqrtPriceTargetX96, liquidity, amountRemaining, zeroForOne) ==
  StepResult(amountRemaining, 0, FALSE)

computeSwapStep(sqrtPriceCurrentX96, sqrtPriceTargetX96, liquidity, amountRemaining, zeroForOne) ==
  IF liquidity = 0 THEN StepResult(0, 0, FALSE)
  ELSE IF zeroForOne
  THEN IF sqrtPriceCurrentX96 <= sqrtPriceTargetX96 THEN StepResult(0, 0, FALSE)
       ELSE LET sqrtPriceDiff == sqrtPriceCurrentX96 - sqrtPriceTargetX96
                amountOutFull == (liquidity * sqrtPriceDiff) \div Q96
                amountInDenominator ==
                  (sqrtPriceCurrentX96 * sqrtPriceTargetX96) \div Q96
                amountInNeeded ==
                  (liquidity * sqrtPriceDiff * Q96) \div amountInDenominator
                sqrtPriceNewX96 ==
                  stepSqrtPriceNew(sqrtPriceCurrentX96, sqrtPriceTargetX96,
                                   liquidity, amountRemaining, zeroForOne)
                diffActual == sqrtPriceCurrentX96 - sqrtPriceNewX96
                sqrtPriceDiffActual == IF diffActual < 0 THEN 0 ELSE diffActual
            IN  IF reachesTarget(amountInNeeded, amountRemaining)
                THEN StepResult(amountInNeeded, amountOutFull, TRUE)
                ELSE StepResult(stalledAmountIn(amountInNeeded, amountRemaining),
                                (liquidity * sqrtPriceDiffActual) \div Q96, FALSE)
  ELSE IF sqrtPriceTargetX96 <= sqrtPriceCurrentX96 THEN StepResult(0, 0, FALSE)
       ELSE LET sqrtPriceDiff == sqrtPriceTargetX96 - sqrtPriceCurrentX96
                amountInNeeded == (liquidity * sqrtPriceDiff) \div Q96
                sqrtPriceNewX96 ==
                  stepSqrtPriceNew(sqrtPriceCurrentX96, sqrtPriceTargetX96,
                                   liquidity, amountRemaining, zeroForOne)
                sqrtPriceDiffActual == sqrtPriceNewX96 - sqrtPriceCurrentX96
            IN  IF reachesTarget(amountInNeeded, amountRemaining)
                THEN StepResult(amountInNeeded,
                                (liquidity * sqrtPriceDiff * Q96)
                                  \div ((sqrtPriceCurrentX96 * sqrtPriceTargetX96) \div Q96),
                                TRUE)
                ELSE StepResult(stalledAmountIn(amountInNeeded, amountRemaining),
                                (liquidity * sqrtPriceDiffActual * Q96)
                                  \div ((sqrtPriceCurrentX96 * sqrtPriceNewX96) \div Q96),
                                FALSE)

(***************************************************************************)
(* The database rows one quote reads: the pools row of the pool and the    *)
(* rows of the ticks table that belong to it.                              *)
(***************************************************************************)
PoolRow(fee, liquidity, sqrtPriceX96, tick) ==
  [fee |-> fee, liquidity |-> liquidity, sqrtPriceX96 |-> sqrtPriceX96, tick |-> tick]

TickRow(tickIndex, liquidityGross, liquidityNet) ==
  [tickIndex |-> tickIndex, liquidityGross |-> liquidityGross,
   liquidityNet |-> liquidityNet]

\* tick spacing from the fee tier
tickSpacingOf(fee) ==
  IF fee = 100 THEN 1
  ELSE IF fee = 500 THEN 10
  ELSE IF fee = 3000 THEN 60
  ELSE IF fee = 10000 THEN 200
  ELSE 1

\* getNextInitializedTick: nearest row with liquidity_gross > 0 strictly
\* beyond currentTick in the direction, else currentTick + direction * spacing
getNextInitializedTick_anyRow(rows, currentTick, direction, tickSpacing) ==
  LET beyond == IF direction < 0
                THEN {r \in rows : r.tickIndex < currentTick}
                ELSE {r \in rows : r.tickIndex > currentTick}
  IN  IF beyond # {}
      THEN IF direction < 0
           THEN CHOOSE t \in {r.tickIndex : r \in beyond} :
                  \A r \in beyond : r.tickIndex <= t
           ELSE CHOOSE t \in {r.tickIndex : r \in beyond} :
                  \A r \in beyond : r.tickIndex >= t
      ELSE currentTick + direction * tickSpacing

getNextInitializedTick_inclusive(rows, currentTick, direction, tickSpacing) ==
  LET beyond == IF direction < 0
                THEN {r \in rows : r.tickIndex <= currentTick /\ r.liquidityGross > 0}
                ELSE {r \in rows : r.tickIndex >= currentTick /\ r.liquidityGross > 0}
  IN  IF beyond # {}
      THEN IF direction < 0
           THEN CHOOSE t \in {r.tickIndex : r \in beyond} :
                  \A r \in beyond : r.tickIndex <= t
           ELSE CHOOSE t \in {r.tickIndex : r \in beyond} :
                  \A r \in beyond : r.tickIndex >= t
      ELSE currentTick + direction * tickSpacing

getNextInitializedTick(rows, currentTick, direction, tickSpacing) ==
  LET beyond == IF direction < 0
                THEN {r \in rows : r.tickIndex < currentTick /\ r.liquidityGross > 0}
                ELSE {r \in rows : r.tickIndex > currentTick /\ r.liquidityGross > 0}
  IN  IF beyond # {}
      THEN IF direction < 0
           THEN CHOOSE t \in {r.tickIndex : r \in beyond} :
                  \A r \in beyond : r.tickIndex <= t
           ELSE CHOOSE t \in {r.tickIndex : r \in beyond} :
                  \A r \in beyond : r.tickIndex >= t
      ELSE currentTick + direction * tickSpacing

\* getTickInfo: the rows with this tick index (none: sql.ErrNoRows)
getTickInfo(rows, tick) == {r \in rows : r.tickIndex = tick}

\* the target price of one iteration
sqrtPriceNextOf(nextTick, tickSpacing, zeroForOne) ==
  IF zeroForOne
  THEN getSqrtPriceAtTick(nextTick)
  ELSE getSqrtPriceAtTick(nextTick + tickSpacing)

\* the active liquidity after crossing a tick whose row is tickInfo
crossLiquidity_unclamped(currentLiquidity, liquidityNet, zeroForOne) ==
  IF zeroForOne
  THEN currentLiquidity - liquidityNet
  ELSE currentLiquidity + liquidityNet

crossLiquidity_stale(currentLiquidity, liquidityNet, zeroForOne) ==
  currentLiquidity

crossLiquidity_added(currentLiquidity, liquidityNet, zeroForOne) ==
  LET updated == currentLiquidity + liquidityNet
  IN  IF updated < 0 THEN 0 ELSE updated

crossLiquidity(currentLiquidity, liquidityNet, zeroForOne) ==
  LET updated == IF zeroForOne
                 THEN currentLiquidity - liquidityNet
                 ELSE currentLiquidity + liquidityNet
  IN  IF updated < 0 THEN 0 ELSE updated

\* the price the loop records when the step stays inside the interval
stalledSqrtPrice_added(currentSqrtPriceX96, currentLiquidity, amountInConsumed, amountOutFromTick, zeroForOne) ==
  IF currentLiquidity > 0
  THEN currentSqrtPriceX96 + (amountInConsumed * Q96) \div currentLiquidity
  ELSE currentSqrtPriceX96

stalledSqrtPrice(currentSqrtPriceX96, currentLiquidity, amountInConsumed, amountOutFromTick, zeroForOne) ==
  IF currentLiquidity > 0
  THEN IF zeroForOne
       THEN currentSqrtPriceX96 - (amountOutFromTick * Q96) \div currentLiquidity
       ELSE currentSqrtPriceX96 + (amountInConsumed * Q96) \div currentLiquidity
  ELSE currentSqrtPriceX96

\* amountIn after the fee, in parts per million
amountInAfterFeeOf_basisPoints(amountInBig, fee) ==
  (amountInBig * (10000 - fee)) \div 10000

amountInAfterFeeOf(amountInBig, fee) ==
  (amountInBig * (FeeDenominator - fee)) \div FeeDenominator

(***************************************************************************)
(* The amountIn of a request is a string, here the sequence of its         *)
(* characters.  new(big.Int).SetString(s, 10) accepts one optional sign    *)
(* followed by one or more decimal digits and nothing else.                *)
(***************************************************************************)
Digits == << "0", "1", "2", "3", "4", "5", "6", "7", "8", "9" >>

IsDigit(ch) == \E i \in 1 .. 10 : Digits[i] = ch

DigitValue(ch) == (CHOOSE i \in 1 .. 10 : Digits[i] = ch) - 1

\* the digits before the first character that is not a digit
RECURSIVE LeadingDigits(_)
LeadingDigits(text) ==
  IF text = << >> \/ ~IsDigit(Head(text)) THEN << >>
  ELSE << Head(text) >> \o LeadingDigits(Tail(text))

RECURSIVE DecimalValue(_)
DecimalValue(digits) ==
  IF digits = << >> THEN 0
  ELSE 10 * DecimalValue(SubSeq(digits, 1, Len(digits) - 1))
         + DigitValue(digits[Len(digits)])

\* a parser that stops at the first character it cannot read
SetString_prefix(text) ==
  LET signed == text # << >> /\ Head(text) \in {"+", "-"}
      body   == IF signed THEN Tail(text) ELSE text
      digits == LeadingDigits(body)
      abs    == DecimalValue(digits)
  IN  [ok |-> digits # << >>,
       value |-> IF signed /\ Head(text) = "-" THEN 0 - abs ELSE abs]

SetString(text) ==
  LET signed == text # << >> /\ Head(text) \in {"+", "-"}
      body   == IF signed THEN Tail(text) ELSE text
      digits == LeadingDigits(body)
      abs    == DecimalValue(digits)
  IN  [ok |-> digits # << >> /\ Len(digits) = Len(body),
       value |-> IF signed /\ Head(text) = "-" THEN 0 - abs ELSE abs]

\* the decimal string of n >= 0, as a client writes it
RECURSIVE FormatInt(_)
FormatInt(n) ==
  IF n < 10 THEN << Digits[n + 1] >>
  ELSE FormatInt(n \div 10) \o << Digits[(n % 10) + 1] >>

\* the checks of CalculateQuoteV3 before the swap: "" when all pass
quoteError_noPoolCheck(poolState, amountInStr) ==
  LET amountInBig == SetString(amountInStr)
  IN  IF ~amountInBig.ok THEN "parse"
      ELSE IF amountInBig.value <= 0 THEN "amount"
      ELSE IF amountInAfterFeeOf(amountInBig.value, poolState.fee) <= 0 THEN "fee"
      ELSE ""

quoteError(poolState, amountInStr) ==
  LET amountInBig == SetString(amountInStr)
  IN  IF poolState.liquidity = 0 THEN "liquidity"
      ELSE IF poolState.sqrtPriceX96 = 0 THEN "price"
      ELSE IF ~amountInBig.ok THEN "parse"
      ELSE IF amountInBig.value <= 0 THEN "amount"
      ELSE IF amountInAfterFeeOf(amountInBig.value, poolState.fee) <= 0 THEN "fee"
      ELSE ""

\* the loop condition of swapExactInput
loopContinues_uncapped(remaining, iters) == remaining > 0

loopContinues(remaining, iters) == remaining > 0 /\ iters < maxIterations

(***************************************************************************)
(* Database contents the quotes are computed against.  Every pool price    *)
(* is the price of the pool's tick unless the row says otherwise.          *)
(***************************************************************************)
Database(poolRow, tickRows) == [pool |-> poolRow, ticks |-> tickRows]

\* 1% pool, liquidity that is used up two or three ticks away on each side
DbWide ==
  Database(PoolRow(10000, 60, getSqrtPriceAtTick(56000), 56000),
           { TickRow(55400, 30, 30), TickRow(55600, 50, 10),
             TickRow(55800, 20, 20), TickRow(56200, 20, 0 - 20),
             TickRow(56400, 40, 0 - 40) })

\* 0.3% pool whose rows raise the liquidity and then take more than is
\* there, with one row at the pool's own tick
DbClamp ==
  Database(PoolRow(3000, 25, getSqrtPriceAtTick(56040), 56040),
           { TickRow(55980, 10, 0 - 15), TickRow(55920, 50, 50),
             TickRow(56040, 25, 25),
             TickRow(56100, 5, 5), TickRow(56160, 40, 0 - 40) })

\* 0.01% pool with rows a few ticks away, one of them emptied by a burn
DbNarrow ==
  Database(PoolRow(100, 50, getSqrtPriceAtTick(56000), 56000),
           { TickRow(55999, 0, 0), TickRow(55990, 50, 50),
             TickRow(56001, 0, 0), TickRow(56012, 50, 0 - 50) })

\* 0.05% pool with liquidity but no tick rows at all
DbNoTicks ==
  Database(PoolRow(500, 3, getSqrtPriceAtTick(56000), 56000), {})

\* 0.05% pool with no tick rows whose crossings cost nothing at first and
\* one unit each at the end of 1000 iterations
DbCapFill ==
  Database(PoolRow(500, 100, getSqrtPriceAtTick(66500), 66500), {})

\* 1% pool at a low price with one far tick above
DbLowPrice ==
  Database(PoolRow(10000, 256, getSqrtPriceAtTick(0 - 46000), 0 - 46000),
           { TickRow(0 - 42000, 256, 0 - 256) })

\* 1% pool at a price so low that price products fall below Q96
DbTinyPrice ==
  Database(PoolRow(10000, 5, getSqrtPriceAtTick(0 - 56000), 0 - 56000),
           { TickRow(0 - 60000, 5, 5) })

\* pools that CalculateQuoteV3 must refuse
DbNoLiquidity ==
  Database(PoolRow(3000, 0, getSqrtPriceAtTick(56040), 56040),
           { TickRow(56100, 5, 5) })

DbNoPrice ==
  Database(PoolRow(3000, 25, 0, 0), { TickRow(60, 5, 5) })

\* pools whose fee is the whole input, or more
DbFullFee ==
  Database(PoolRow(FeeDenominator, 25, getSqrtPriceAtTick(56040), 56040), {})

DbOverFee ==
  Database(PoolRow(FeeDenominator + 500, 25, getSqrtPriceAtTick(56040), 56040), {})

Databases ==
  { DbWide, DbClamp, DbNarrow, DbNoTicks, DbCapFill, DbLowPrice, DbTinyPrice,
    DbNoLiquidity, DbNoPrice, DbFullFee, DbOverFee }

\* amountIn strings of requests: the numbers up to MaxAmountIn as a client
\* writes them, and strings that are signed, padded or no number at all
SignedTexts ==
  { << "-", "5" >>, << "-", "0" >>, << "+", "7" >>, << "0", "0", "7" >> }

MalformedTexts ==
  { << >>, << "-" >>, << "+" >>, << "a", "b", "c" >>, << "1", ".", "5" >>,
    << "1", "e", "3" >>, << " ", "7" >>, << "7", " " >>,
    << "0", "x", "1", "0" >>, << "1", "_", "0" >>, << "-", "-", "5" >> }

AmountInTexts ==
  { FormatInt(n) : n \in 0 .. MaxAmountIn } \cup SignedTexts \cup MalformedTexts

(***************************************************************************)
(* State.                                                                  *)
(***************************************************************************)
VARIABLES
  db,                   \* the pools row and the ticks rows of the pool
  amountInText,         \* the request: amountIn, a string
  amountIn,             \* amountInBig, the value of amountInText (0 if none)
  isToken0,             \* the request: tokenIn is the pool's token0
  pc,                   \* "start", "loop", "exit", "done", "error", "panic",
                        \* "refused"
  currentSqrtPriceX96,  \* locals of swapExactInput
  currentLiquidity,
  currentTick,
  amountOut,
  amountRemaining,
  crossedTicks,
  iterations,
  step,                 \* locals of the last loop iteration
  result,               \* the QuoteResult returned, or NoResult
  errorKind,            \* which check refused the request, "" if none
  lastQuote,            \* the last quote returned and the input it left over
  conv,                 \* a call of the tick/price conversions on its own
  poolAddress,          \* the request: poolAddress, "" when left out
  httpStatus,           \* the status GetQuote answered, 0 before it answers
  indexer               \* what the scanner did to the ticks table meanwhile

vars ==
  << db, amountInText, amountIn, isToken0, pc, currentSqrtPriceX96, currentLiquidity,
     currentTick, amountOut, amountRemaining, crossedTicks, iterations,
     step, result, errorKind, lastQuote, conv, poolAddress, httpStatus,
     indexer >>

NoResult == [returned |-> FALSE]
NoStep == [ran |-> FALSE]
NoQuote == [quoted |-> FALSE]
NoConv == [op |-> "none"]
NoIndexer == [applied |-> FALSE]

poolState == db.pool
zeroForOne == isToken0
tickDirection == IF zeroForOne THEN 0 - 1 ELSE 1
tickSpacing == tickSpacingOf(poolState.fee)

\* the locals of swapExactInput before it is entered
SwapBlank ==
  /\ currentSqrtPriceX96 = 0
  /\ currentLiquidity = 0
  /\ currentTick = 0
  /\ amountOut = 0
  /\ amountRemaining = 0
  /\ crossedTicks = 0
  /\ iterations = 0
  /\ step = NoStep
  /\ result = NoResult
  /\ errorKind = ""

\* the statuses GetQuote answers with
StatusOK == 200
StatusBadRequest == 400
StatusInternalServerError == 500

\* the pool address of the request body: left out, or the pool's address
PoolAddresses == {"", "0xpool"}

\* the pools row FindBestPool selects for the token pair
FindBestPool(database) == database.pool

\* why GetQuote answers before it calls CalculateQuoteV3, "" if it calls
HandlerRefusal(text, address, database) ==
  IF text = << >>
  THEN "bind"
  ELSE IF address = "" /\ FindBestPool(database).liquidity = 0
       THEN "liquidity"
       ELSE ""

Init ==
  /\ db \in Databases
  /\ amountInText \in AmountInTexts
  /\ amountIn = IF SetString(amountInText).ok
                THEN SetString(amountInText).value ELSE 0
  /\ isToken0 \in BOOLEAN
  /\ pc = "start"
  /\ SwapBlank
  /\ lastQuote = NoQuote
  /\ conv = NoConv
  /\ poolAddress \in PoolAddresses
  /\ httpStatus = 0
  /\ indexer = NoIndexer

(***************************************************************************)
(* GetQuote answering before CalculateQuoteV3 is called.                   *)
(***************************************************************************)
GetQuoteRefuses ==
  /\ pc = "start"
  /\ HandlerRefusal(amountInText, poolAddress, db) # ""
  /\ pc' = "refused"
  /\ httpStatus' = StatusBadRequest
  /\ UNCHANGED << db, amountInText, amountIn, isToken0, currentSqrtPriceX96,
                  currentLiquidity, currentTick, amountOut, amountRemaining,
                  crossedTicks, iterations, step, result, errorKind, lastQuote,
                  conv, poolAddress, indexer >>

(***************************************************************************)
(* CalculateQuoteV3 up to the call of swapExactInput.                      *)
(***************************************************************************)
CalculateQuoteV3 ==
  /\ pc = "start"
  /\ HandlerRefusal(amountInText, poolAddress, db) = ""
  /\ errorKind' = quoteError(poolState, amountInText)
  /\ httpStatus' = IF errorKind' # "" THEN StatusInternalServerError ELSE httpStatus
  /\ IF errorKind' # ""
     THEN /\ pc' = "error"
          /\ UNCHANGED << currentSqrtPriceX96, currentLiquidity, currentTick,
                          amountRemaining >>
     ELSE /\ pc' = "loop"
          /\ currentSqrtPriceX96' = poolState.sqrtPriceX96
          /\ currentLiquidity' = poolState.liquidity
          /\ currentTick' = poolState.tick
          /\ amountRemaining' = amountInAfterFeeOf(amountIn, poolState.fee)
  /\ UNCHANGED << db, amountInText, amountIn, isToken0, amountOut, crossedTicks, iterations,
                  step, result, lastQuote, conv, poolAddress, indexer >>

(***************************************************************************)
(* One iteration of the loop of swapExactInput.                            *)
(***************************************************************************)
SwapIteration ==
  /\ pc = "loop"
  /\ loopContinues(amountRemaining, iterations)
  /\ LET nextTick == getNextInitializedTick(db.ticks, currentTick,
                                            tickDirection, tickSpacing)
         sqrtPriceNextX96 == sqrtPriceNextOf(nextTick, tickSpacing, zeroForOne)
         panics ==
           \/ ThresholdPanics(currentSqrtPriceX96, sqrtPriceNextX96,
                              currentLiquidity, zeroForOne)
           \/ StepPanics(currentSqrtPriceX96, sqrtPriceNextX96,
                         currentLiquidity, amountRemaining, zeroForOne)
     IN
     /\ iterations' = iterations + 1
     /\ IF panics
        THEN /\ pc' = "panic"
             /\ step' = [ran |-> TRUE, panicked |-> TRUE, nextTick |-> nextTick,
                         sqrtPriceNextX96 |-> sqrtPriceNextX96]
             /\ UNCHANGED << currentSqrtPriceX96, currentLiquidity, currentTick,
                             amountOut, amountRemaining, crossedTicks >>
        ELSE
          LET minAmountInToCrossTick ==
                calculateMinAmountInToCrossTick(currentSqrtPriceX96,
                    sqrtPriceNextX96, currentLiquidity, zeroForOne)
              r == computeSwapStep(currentSqrtPriceX96, sqrtPriceNextX96,
                                   currentLiquidity, amountRemaining, zeroForOne)
              tickInfo == getTickInfo(db.ticks, nextTick)
          IN
          /\ step' = [ran |-> TRUE, panicked |-> FALSE,
                      nextTick |-> nextTick,
                      sqrtPriceNextX96 |-> sqrtPriceNextX96,
                      minAmountInToCrossTick |-> minAmountInToCrossTick,
                      amountInConsumed |-> r.amountInConsumed,
                      amountOutFromTick |-> r.amountOut,
                      reachedNextTick |-> r.reachedTarget,
                      oldSqrtPriceX96 |-> currentSqrtPriceX96,
                      oldLiquidity |-> currentLiquidity,
                      oldTick |-> currentTick,
                      oldRemaining |-> amountRemaining,
                      oldCrossedTicks |-> crossedTicks,
                      tickInfo |-> tickInfo]
          /\ amountOut' = amountOut + r.amountOut
          /\ amountRemaining' = amountRemaining - r.amountInConsumed
          /\ IF r.reachedTarget
             THEN /\ currentTick' = nextTick
                  /\ currentSqrtPriceX96' = sqrtPriceNextX96
                  /\ crossedTicks' = crossedTicks + 1
                  /\ currentLiquidity' =
                       IF tickInfo # {}
                       THEN crossLiquidity(currentLiquidity,
                              (CHOOSE t \in tickInfo : TRUE).liquidityNet,
                              zeroForOne)
                       ELSE currentLiquidity
                  /\ pc' = "loop"
             ELSE /\ currentSqrtPriceX96' =
                       stalledSqrtPrice(currentSqrtPriceX96, currentLiquidity,
                                        r.amountInConsumed, r.amountOut, zeroForOne)
                  /\ pc' = "exit"
                  /\ UNCHANGED << currentTick, crossedTicks, currentLiquidity >>
  /\ UNCHANGED << db, amountInText, amountIn, isToken0, result, errorKind, lastQuote,
                  conv, poolAddress, httpStatus, indexer >>

(***************************************************************************)
(* The end of swapExactInput and the assembly of the QuoteResult.          *)
(***************************************************************************)
priceImpactOf_swapped(initialPrice, finalPrice) ==
  IF initialPrice > 0
  THEN [num |-> (initialPrice - finalPrice) * 100, den |-> initialPrice]
  ELSE [num |-> 0, den |-> 1]

priceImpactOf(initialPrice, finalPrice) ==
  IF initialPrice > 0
  THEN [num |-> (finalPrice - initialPrice) * 100, den |-> initialPrice]
  ELSE [num |-> 0, den |-> 1]

QuoteResult(out, newSqrtPriceX96, crossed) ==
  LET initialPrice == sqrtPriceX96ToPrice(poolState.sqrtPriceX96, isToken0)
      finalPrice   == sqrtPriceX96ToPrice(newSqrtPriceX96, isToken0)
  IN  [returned |-> TRUE,
       amountOut |-> out,
       amountIn |-> amountInText,
       priceImpact |-> priceImpactOf(initialPrice, finalPrice),
       newSqrtPriceX96 |-> newSqrtPriceX96,
       newTick |-> getTickAtSqrtPrice(newSqrtPriceX96),
       initialPrice |-> initialPrice,
       finalPrice |-> finalPrice,
       crossedTicks |-> crossed]

SwapReturn ==
  /\ \/ pc = "exit"
     \/ pc = "loop" /\ ~loopContinues(amountRemaining, iterations)
  /\ result' = QuoteResult(amountOut, currentSqrtPriceX96, crossedTicks)
  /\ pc' = "done"
  /\ httpStatus' = StatusOK
  /\ UNCHANGED << db, amountInText, amountIn, isToken0, currentSqrtPriceX96, currentLiquidity,
                  currentTick, amountOut, amountRemaining, crossedTicks,
                  iterations, step, errorKind, lastQuote, conv, poolAddress,
                  indexer >>

(***************************************************************************)
(* The next request: the same pool and direction, one unit more input.     *)
(***************************************************************************)
NextRequest ==
  /\ pc \in {"done", "error", "panic", "refused"}
  /\ amountIn >= 0
  /\ amountIn < MaxAmountIn
  /\ amountIn' = amountIn + 1
  /\ amountInText' = FormatInt(amountIn + 1)
  /\ lastQuote' = IF pc = "done"
                  THEN [quoted |-> TRUE, amountIn |-> amountIn,
                        amountOut |-> result.amountOut,
                        result |-> result,
                        amountRemaining |-> amountRemaining]
                  ELSE lastQuote
  /\ pc' = "start"
  /\ currentSqrtPriceX96' = 0
  /\ currentLiquidity' = 0
  /\ currentTick' = 0
  /\ amountOut' = 0
  /\ amountRemaining' = 0
  /\ crossedTicks' = 0
  /\ iterations' = 0
  /\ step' = NoStep
  /\ result' = NoResult
  /\ errorKind' = ""
  /\ httpStatus' = 0
  /\ indexer' = IF indexer.applied
                THEN [indexer EXCEPT !.inFlight = FALSE]
                ELSE indexer
  /\ UNCHANGED << db, isToken0, conv, poolAddress >>

Next ==
  \/ GetQuoteRefuses
  \/ CalculateQuoteV3
  \/ SwapIteration
  \/ SwapReturn
  \/ NextRequest

Spec == Init /\ [][Next]_vars

(***************************************************************************)
(* swapExactInput as one function of the ticks rows it queries: the loop   *)
(* run to its end against one fixed content of the table.                  *)
(***************************************************************************)
RECURSIVE swapExactInput(_, _, _, _, _, _, _, _)
swapExactInput(rows, sqrtPriceX96, liquidity, tick, out, remaining, crossed, n) ==
  IF ~loopContinues(remaining, n)
  THEN [panicked |-> FALSE, amountOut |-> out,
        newSqrtPriceX96 |-> sqrtPriceX96, crossedTicks |-> crossed]
  ELSE
    LET nextTick == getNextInitializedTick(rows, tick, tickDirection, tickSpacing)
        sqrtPriceNextX96 == sqrtPriceNextOf(nextTick, tickSpacing, zeroForOne)
    IN
    IF \/ ThresholdPanics(sqrtPriceX96, sqrtPriceNextX96, liquidity, zeroForOne)
       \/ StepPanics(sqrtPriceX96, sqrtPriceNextX96, liquidity, remaining,
                     zeroForOne)
    THEN [panicked |-> TRUE]
    ELSE
      LET r == computeSwapStep(sqrtPriceX96, sqrtPriceNextX96, liquidity,
                               remaining, zeroForOne)
          tickInfo == getTickInfo(rows, nextTick)
      IN
      IF r.reachedTarget
      THEN swapExactInput(rows, sqrtPriceNextX96,
             IF tickInfo # {}
             THEN crossLiquidity(liquidity,
                    (CHOOSE t \in tickInfo : TRUE).liquidityNet, zeroForOne)
             ELSE liquidity,
             nextTick, out + r.amountOut, remaining - r.amountInConsumed,
             crossed + 1, n + 1)
      ELSE [panicked |-> FALSE, amountOut |-> out + r.amountOut,
            newSqrtPriceX96 |->
              stalledSqrtPrice(sqrtPriceX96, liquidity, r.amountInConsumed,
                               r.amountOut, zeroForOne),
            crossedTicks |-> crossed]

\* the QuoteResult of the request when every query sees the same rows
QuoteOn(rows) ==
  LET s == swapExactInput(rows, poolState.sqrtPriceX96, poolState.liquidity,
                          poolState.tick, 0,
                          amountInAfterFeeOf(amountIn, poolState.fee), 0, 0)
  IN  IF s.panicked
      THEN NoResult
      ELSE QuoteResult(s.amountOut, s.newSqrtPriceX96, s.crossedTicks)

(***************************************************************************)
(* The scanner (sync/pkg/scanner/utils.go) writing the ticks table while a *)
(* quote is being computed.                                                *)
(***************************************************************************)
\* the liquidity of the Mint event the scanner handles
MintLiquidity == 10

\* INSERT ... ON CONFLICT (pool_address, tick_index) DO UPDATE
upsertTick(rows, tickIndex, liquidityGross, liquidityNet) ==
  IF \E r \in rows : r.tickIndex = tickIndex
  THEN { IF r.tickIndex = tickIndex
         THEN TickRow(tickIndex, r.liquidityGross + liquidityGross,
                      r.liquidityNet + liquidityNet)
         ELSE r : r \in rows }
  ELSE rows \cup { TickRow(tickIndex, liquidityGross, liquidityNet) }

updateTicksFromMint(rows, tickLower, tickUpper, liquidity) ==
  upsertTick(upsertTick(rows, tickLower, liquidity, liquidity),
             tickUpper, liquidity, 0 - liquidity)

\* the position bounds of a pool: the ticks that have rows
TickBounds(rows) == { r.tickIndex : r \in rows }

\* a Mint is indexed between two iterations of the loop of a quote
IndexerUpdate ==
  /\ pc = "loop"
  /\ iterations >= 1
  /\ loopContinues(amountRemaining, iterations)
  /\ ~indexer.applied
  /\ \E tickLower \in TickBounds(db.ticks), tickUpper \in TickBounds(db.ticks) :
       /\ tickLower < tickUpper
       /\ db' = [db EXCEPT !.ticks =
                   updateTicksFromMint(db.ticks, tickLower, tickUpper,
                                       MintLiquidity)]
  /\ indexer' = [applied |-> TRUE, inFlight |-> TRUE, before |-> db.ticks,
                 afterIteration |-> iterations]
  /\ UNCHANGED << amountInText, amountIn, isToken0, pc, currentSqrtPriceX96,
                  currentLiquidity, currentTick, amountOut, amountRemaining,
                  crossedTicks, iterations, step, result, errorKind, lastQuote,
                  conv, poolAddress, httpStatus >>

IndexerNext ==
  \/ GetQuoteRefuses
  \/ CalculateQuoteV3
  \/ SwapIteration
  \/ SwapReturn
  \/ NextRequest
  \/ IndexerUpdate

IndexerSpec == Init /\ [][IndexerNext]_vars

(***************************************************************************)
(* The conversions called on their own: getSqrtPriceAtTick on a tick,      *)
(* getTickAtSqrtPrice on a price, the latter also on the price the former  *)
(* returned.  getTickAtSqrtPrice returns an int64 and nothing else: it has *)
(* no error result and no panic.                                           *)
(***************************************************************************)
\* ticks and prices the conversions are called with
ConvSpan == 2000

ConvPriceMax == 300

ConvTicks == (0 - ConvSpan) .. ConvSpan

ConvPrices == 0 .. ConvPriceMax

ConvInit ==
  /\ db = DbNoTicks
  /\ amountInText = << "0" >>
  /\ amountIn = 0
  /\ isToken0 = TRUE
  /\ pc = "conv"
  /\ SwapBlank
  /\ lastQuote = NoQuote
  /\ poolAddress = ""
  /\ httpStatus = 0
  /\ indexer = NoIndexer
  /\ \/ \E t \in ConvTicks : conv = [op |-> "tick", tick |-> t]
     \/ \E x \in ConvPrices :
          conv = [op |-> "price", sqrtPriceX96 |-> x, ofTick |-> FALSE, tick |-> 0]

ConvGetSqrtPriceAtTick ==
  /\ pc = "conv"
  /\ conv.op = "tick"
  /\ conv' = [op |-> "price", sqrtPriceX96 |-> getSqrtPriceAtTick(conv.tick),
              ofTick |-> TRUE, tick |-> conv.tick]
  /\ UNCHANGED << db, amountInText, amountIn, isToken0, pc, currentSqrtPriceX96,
                  currentLiquidity, currentTick, amountOut, amountRemaining,
                  crossedTicks, iterations, step, result, errorKind, lastQuote,
                  poolAddress, httpStatus, indexer >>

ConvGetTickAtSqrtPrice ==
  /\ pc = "conv"
  /\ conv.op = "price"
  /\ conv' = [op |-> "returned", sqrtPriceX96 |-> conv.sqrtPriceX96,
              ofTick |-> conv.ofTick, tick |-> conv.tick,
              returnedTick |-> getTickAtSqrtPrice(conv.sqrtPriceX96),
              error |-> FALSE]
  /\ UNCHANGED << db, amountInText, amountIn, isToken0, pc, currentSqrtPriceX96,
                  currentLiquidity, currentTick, amountOut, amountRemaining,
                  crossedTicks, iterations, step, result, errorKind, lastQuote,
                  poolAddress, httpStatus, indexer >>

ConvNext ==
  \/ ConvGetSqrtPriceAtTick
  \/ ConvGetTickAtSqrtPrice

ConvSpec == ConvInit /\ [][ConvNext]_vars

(***************************************************************************)
(* calculateMinAmountInToCrossTick on its own: one liquidity, one current  *)
(* price and two boundary prices, the nearer and the farther one.          *)
(***************************************************************************)
ThrLiquidityMax == 12
ThrPriceCount == 8

ThrLiquidities == 0 .. ThrLiquidityMax

\* sqrt prices from 0 to twice Q96, a quarter of Q96 apart
ThrPrices == { (k * Q96) \div 4 : k \in 0 .. ThrPriceCount }

ThresholdInit ==
  /\ db = DbNoTicks
  /\ amountInText = << "0" >>
  /\ amountIn = 0
  /\ isToken0 \in BOOLEAN
  /\ pc = "threshold"
  /\ SwapBlank
  /\ lastQuote = NoQuote
  /\ poolAddress = ""
  /\ httpStatus = 0
  /\ indexer = NoIndexer
  /\ \E l \in ThrLiquidities, c \in ThrPrices, n \in ThrPrices, f \in ThrPrices :
       conv = [op |-> "boundaries", liquidity |-> l, sqrtPriceCurrentX96 |-> c,
               nearX96 |-> n, farX96 |-> f]

\* the two calls; a call that divides by zero panics
ThresholdCalls ==
  /\ pc = "threshold"
  /\ conv.op = "boundaries"
  /\ conv' =
       IF \/ ThresholdPanics(conv.sqrtPriceCurrentX96, conv.nearX96,
                             conv.liquidity, zeroForOne)
          \/ ThresholdPanics(conv.sqrtPriceCurrentX96, conv.farX96,
                             conv.liquidity, zeroForOne)
       THEN [op |-> "panicked"]
       ELSE [op |-> "thresholds", liquidity |-> conv.liquidity,
             sqrtPriceCurrentX96 |-> conv.sqrtPriceCurrentX96,
             nearX96 |-> conv.nearX96, farX96 |-> conv.farX96,
             near |-> calculateMinAmountInToCrossTick(conv.sqrtPriceCurrentX96,
                        conv.nearX96, conv.liquidity, zeroForOne),
             far |-> calculateMinAmountInToCrossTick(conv.sqrtPriceCurrentX96,
                        conv.farX96, conv.liquidity, zeroForOne)]
  /\ UNCHANGED << db, amountInText, amountIn, isToken0, pc, currentSqrtPriceX96,
                  currentLiquidity, currentTick, amountOut, amountRemaining,
                  crossedTicks, iterations, step, result, errorKind, lastQuote,
                  poolAddress, httpStatus, indexer >>

ThresholdNext == ThresholdCalls

ThresholdSpec == ThresholdInit /\ [][ThresholdNext]_vars

TypeOK ==
  /\ db \in Databases
  /\ amountInText \in AmountInTexts
  /\ amountIn \in (0 - 5) .. MaxAmountIn
  /\ isToken0 \in BOOLEAN
  /\ pc \in {"start", "loop", "exit", "done", "error", "panic", "refused"}
  /\ poolAddress \in PoolAddresses
  /\ httpStatus \in {0, StatusOK, StatusBadRequest, StatusInternalServerError}
  /\ iterations \in 0 .. maxIterations
  /\ crossedTicks \in 0 .. maxIterations

(***************************************************************************)
(* Properties.                                                             *)
(***************************************************************************)
\* the last iteration ran computeSwapStep to its end
Stepped == step.ran /\ ~step.panicked

\* the target of the last step lay on the trade's side of the price
StepOrderValid ==
  IF zeroForOne
  THEN step.oldSqrtPriceX96 > step.sqrtPriceNextX96
  ELSE step.sqrtPriceNextX96 > step.oldSqrtPriceX96

\* C1: for a fixed pool, tick data and direction the quoted amountOut is
\* non-decreasing in amountIn: a quote never returns less than the quote
\* returned before it for a smaller input.
C1_Monotone ==
  (pc = "done" /\ lastQuote.quoted /\ lastQuote.amountIn <= amountIn)
    => lastQuote.amountOut <= result.amountOut

\* C2: the loop runs at most maxIterations iterations (every step taken
\* inside the loop either leaves it or counts one more iteration), and once
\* it has ended amountRemaining is >= 0.
C2_Terminates ==
  /\ [](/\ iterations <= maxIterations
        /\ (pc \in {"exit", "done"} => amountRemaining >= 0))
  /\ [][pc = "loop" =>
          \/ pc' \in {"exit", "done", "panic"}
          \/ iterations' = iterations + 1]_vars

C2_Witness ==
  pc = "done" /\ iterations = maxIterations /\ amountRemaining > 0

\* C3: currentLiquidity is never negative, whatever liquidityNet the
\* crossed ticks carry.
C3_LiquidityNonNegative == currentLiquidity >= 0

C3_Witness ==
  /\ Stepped /\ step.reachedNextTick /\ pc = "loop"
  /\ \E t \in step.tickInfo :
       (IF zeroForOne THEN step.oldLiquidity - t.liquidityNet
                      ELSE step.oldLiquidity + t.liquidityNet) < 0
  /\ currentLiquidity = 0

\* C4: inside one simulation amountRemaining never increases and amountOut
\* never decreases; each step consumes between 0 and amountRemaining and
\* produces an output >= 0.
C4_Progress ==
  /\ [](Stepped =>
          /\ step.amountInConsumed >= 0
          /\ step.amountOutFromTick >= 0
          /\ step.amountInConsumed <= step.oldRemaining)
  /\ [][pc = "loop" =>
          /\ amountRemaining' <= amountRemaining
          /\ amountOut' >= amountOut]_vars

C4_Witness ==
  /\ Stepped /\ iterations >= 2
  /\ step.amountInConsumed > 0 /\ step.amountOutFromTick > 0
  /\ amountOut > step.amountOutFromTick
  /\ amountRemaining < amountIn

\* C5: with liquidity > 0 and the target on the trade's side, the step
\* reaches the target exactly when the input needed to reach it is
\* <= amountRemaining; when the two are equal the tick is crossed, counted,
\* its liquidityNet is applied and nothing remains, so the loop ends.
C5_TieBreak ==
  (Stepped /\ step.oldLiquidity > 0 /\ StepOrderValid) =>
    /\ step.reachedNextTick <=>
         (step.minAmountInToCrossTick <= step.oldRemaining)
    /\ (step.oldRemaining = step.minAmountInToCrossTick) =>
         /\ step.reachedNextTick
         /\ amountRemaining = 0
         /\ currentTick = step.nextTick
         /\ crossedTicks = step.oldCrossedTicks + 1
         /\ \A t \in step.tickInfo :
              LET moved == IF zeroForOne
                           THEN step.oldLiquidity - t.liquidityNet
                           ELSE step.oldLiquidity + t.liquidityNet
              IN  currentLiquidity = IF moved < 0 THEN 0 ELSE moved
         /\ pc # "exit"
         /\ ~loopContinues(amountRemaining, iterations)

C5_Witness ==
  /\ Stepped /\ step.oldLiquidity > 0 /\ StepOrderValid
  /\ step.minAmountInToCrossTick > 0
  /\ step.oldRemaining = step.minAmountInToCrossTick
  /\ step.tickInfo # {}
  /\ pc = "done"

\* C6: a step that reaches its target consumes exactly the amount
\* calculateMinAmountInToCrossTick gives for the same prices, liquidity and
\* direction.
C6_ThresholdConsumed ==
  (Stepped /\ step.reachedNextTick) =>
    step.amountInConsumed = step.minAmountInToCrossTick

C6_Witness ==
  /\ Stepped /\ step.reachedNextTick
  /\ step.amountInConsumed > 0
  /\ step.amountInConsumed < step.oldRemaining

\* C7: a step with liquidity > 0 and a valid price order that does not
\* reach its target consumes all of amountRemaining: nothing remains and
\* the loop stops.
C7_StallConsumesAll ==
  (Stepped /\ step.oldLiquidity > 0 /\ StepOrderValid /\ ~step.reachedNextTick) =>
    /\ step.amountInConsumed = step.oldRemaining
    /\ amountRemaining = 0
    /\ pc \in {"exit", "done"}

C7_Witness ==
  /\ Stepped /\ step.oldLiquidity > 0 /\ StepOrderValid
  /\ ~step.reachedNextTick
  /\ iterations >= 2
  /\ pc = "exit"

\* C8: after an iteration whose step reached the target the current price
\* is the price of the tick recorded as current, in both directions.
C8_PriceAtCurrentTick ==
  (Stepped /\ step.reachedNextTick) =>
    currentSqrtPriceX96 = getSqrtPriceAtTick(currentTick)

\* C9: a pool whose liquidity or price is zero gets an error: no loop
\* iteration runs and no QuoteResult is returned.
C9_UninitializedPool ==
  (poolState.liquidity = 0 \/ poolState.sqrtPriceX96 = 0) =>
    /\ pc \in {"start", "error", "refused"}
    /\ pc = "error" => errorKind \in {"liquidity", "price"}
    /\ iterations = 0
    /\ ~step.ran
    /\ ~result.returned

C9_Witness ==
  /\ pc = "error"
  /\ poolState.liquidity = 0
  /\ amountIn > 0

\* C10: the loop starts with amountRemaining = floor(amountIn * (1000000 -
\* fee) / 1000000); when that is <= 0 the request gets an error and no
\* step runs.
C10_FeeDeduction ==
  LET afterFee == (amountIn * (1000000 - poolState.fee)) \div 1000000
  IN  /\ (pc = "loop" /\ iterations = 0) => amountRemaining = afterFee
      /\ afterFee <= 0 =>
           /\ pc \in {"start", "error", "refused"}
           /\ iterations = 0
           /\ ~step.ran
           /\ ~result.returned

C10_Witness ==
  /\ pc = "error" /\ errorKind = "fee"
  /\ amountIn > 0
  /\ poolState.fee > 0 /\ poolState.fee < 1000000

\* C11: a request whose amountIn is no base-10 integer string, or whose
\* value is <= 0, gets an error and no quote: no step runs, nothing is
\* returned.
Base10Integer(text) ==
  LET body == IF text # << >> /\ Head(text) \in {"+", "-"}
              THEN Tail(text) ELSE text
  IN  /\ body # << >>
      /\ \A i \in 1 .. Len(body) : IsDigit(body[i])

Base10Positive(text) ==
  /\ Base10Integer(text)
  /\ Head(text) # "-"
  /\ \E i \in 1 .. Len(text) : text[i] \notin {"+", "0"}

C11_InvalidAmount ==
  ~Base10Positive(amountInText) =>
    /\ pc \in {"start", "error", "refused"}
    /\ iterations = 0
    /\ ~step.ran
    /\ ~result.returned

C11_Witness ==
  /\ pc = "error" /\ errorKind = "parse"
  /\ LeadingDigits(amountInText) # << >>
  /\ poolState.liquidity > 0 /\ poolState.sqrtPriceX96 > 0

\* what swapExactInput and CalculateQuoteV3 compute and return: every field
\* of the result but the echo of the request's amountIn
ComputedFields(r) ==
  << r.amountOut, r.newSqrtPriceX96, r.newTick, r.crossedTicks,
     r.initialPrice, r.finalPrice, r.priceImpact >>

\* C12: a result returned after the iteration cap stopped the loop with
\* input left over differs from the result of a swap that was filled
\* completely.
C12_PartialDetectable ==
  (/\ pc = "done" /\ iterations = maxIterations /\ amountRemaining > 0
   /\ lastQuote.quoted /\ lastQuote.amountRemaining = 0) =>
     ComputedFields(result) # ComputedFields(lastQuote.result)

\* C13: getTickAtSqrtPrice signals an error for the price 0 and returns no
\* tick for it.
C13_ZeroPriceSignalled ==
  (conv.op = "returned" /\ conv.sqrtPriceX96 = 0) => conv.error

\* C17: the tick getTickAtSqrtPrice returns for getSqrtPriceAtTick(tick)
\* differs from tick by at most 1.
C17_RoundTrip ==
  (conv.op = "returned" /\ conv.ofTick) =>
    /\ conv.returnedTick - conv.tick <= 1
    /\ conv.tick - conv.returnedTick <= 1

\* C14: a pool whose initialPrice comes out as 0 gets an error and never a
\* QuoteResult.
C14_ZeroInitialPrice ==
  sqrtPriceX96ToPrice(poolState.sqrtPriceX96, isToken0) = 0 => ~result.returned

\* the first step of a token0-in quote, run with liquidity > 0 and less
\* input than the threshold of the next tick
FirstStepBelowThreshold ==
  /\ Stepped /\ iterations = 1 /\ isToken0
  /\ step.oldLiquidity > 0
  /\ step.oldRemaining < step.minAmountInToCrossTick

\* that step does not reach the target, consumes the whole input and ends
\* the loop with no tick crossed
FirstStepStalls ==
  /\ ~step.reachedNextTick
  /\ step.amountInConsumed = step.oldRemaining
  /\ amountRemaining = 0
  /\ crossedTicks = 0
  /\ pc \in {"exit", "done"}
  /\ pc = "done" => result.crossedTicks = 0

\* C15 as claimed: with less input than the threshold the first step
\* stalls and the tick reported is the pool's starting tick.
C15_StallKeepsTick ==
  FirstStepBelowThreshold =>
    /\ FirstStepStalls
    /\ pc = "done" => result.newTick = poolState.tick

\* C15 as amended: with less input than the threshold the first step
\* stalls, the price ends between the target and the starting price, and
\* the tick reported is the tick of that price, between the ticks of the
\* two.
C15_StallReportsPriceTick ==
  FirstStepBelowThreshold =>
    /\ FirstStepStalls
    /\ step.sqrtPriceNextX96 <= currentSqrtPriceX96
    /\ currentSqrtPriceX96 <= poolState.sqrtPriceX96
    /\ pc = "done" =>
         /\ result.newSqrtPriceX96 = currentSqrtPriceX96
         /\ result.newTick = getTickAtSqrtPrice(currentSqrtPriceX96)
         /\ getTickAtSqrtPrice(step.sqrtPriceNextX96) <= result.newTick
         /\ result.newTick <= getTickAtSqrtPrice(poolState.sqrtPriceX96)

C15_Witness ==
  /\ FirstStepBelowThreshold /\ pc = "done"
  /\ step.amountOutFromTick > 0
  /\ result.newTick < poolState.tick
  /\ result.newTick > step.nextTick

\* C16: every executed step adds exactly its own output to amountOut and,
\* when it reached its target, one to crossedTicks (both start at zero and
\* are returned as accumulated); the step after a crossing is computed with
\* the liquidity as changed by the crossed tick's liquidityNet.
NetApplied(liquidity, rows) ==
  IF rows = {} THEN liquidity
  ELSE LET net == (CHOOSE t \in rows : TRUE).liquidityNet
           updated == IF isToken0 THEN liquidity - net ELSE liquidity + net
       IN  IF updated < 0 THEN 0 ELSE updated

StepAccumulates ==
  (iterations' = iterations + 1 /\ ~step'.panicked) =>
    /\ amountOut' = amountOut + step'.amountOutFromTick
    /\ crossedTicks' = crossedTicks + (IF step'.reachedNextTick THEN 1 ELSE 0)
    /\ step'.oldLiquidity = currentLiquidity
    /\ step'.reachedNextTick =>
         currentLiquidity' = NetApplied(currentLiquidity, step'.tickInfo)
    /\ step'.amountOutFromTick =
         computeSwapStep(currentSqrtPriceX96, step'.sqrtPriceNextX96,
                         currentLiquidity, amountRemaining, isToken0).amountOut

LoopStartsAtZero ==
  (pc = "start" /\ pc' = "loop") => amountOut' = 0 /\ crossedTicks' = 0

ReturnsAccumulated ==
  (pc # "done" /\ pc' = "done") =>
    /\ result'.amountOut = amountOut
    /\ result'.crossedTicks = crossedTicks
    /\ amountOut' = amountOut /\ crossedTicks' = crossedTicks

OnlyStepsAccumulate ==
  (iterations' = iterations /\ pc' # "start") =>
    (pc' = "loop" /\ pc = "start") \/ (amountOut' = amountOut /\ crossedTicks' = crossedTicks)

C16_OutputIsSumOfSteps ==
  [][StepAccumulates /\ LoopStartsAtZero /\ ReturnsAccumulated
       /\ OnlyStepsAccumulate]_vars

C16_Witness ==
  /\ pc = "done" /\ Stepped
  /\ iterations = 3 /\ result.crossedTicks = 2
  /\ ~step.reachedNextTick
  /\ step.amountOutFromTick > 0
  /\ step.oldLiquidity # poolState.liquidity
  /\ result.amountOut > step.amountOutFromTick

\* C18: whenever the pool used for the quote has zero liquidity or a zero
\* price, the answer of GetQuote is HTTP 400, whether the pool was found by
\* the token pair or named by poolAddress.
C18_BadPoolIsBadRequest ==
  (httpStatus # 0 /\ (poolState.liquidity = 0 \/ poolState.sqrtPriceX96 = 0)) =>
    httpStatus = StatusBadRequest

C18_Witness ==
  /\ pc = "refused" /\ httpStatus = StatusBadRequest
  /\ poolAddress = ""
  /\ poolState.liquidity = 0
  /\ amountInText # << >>

\* C19: the sign of priceImpact follows the price: positive only when the
\* final price is above the initial price, negative only when it is below;
\* a token0-in quote never reports a positive impact and a token1-in quote
\* never a negative one.
C19_ImpactSignFollowsPrice ==
  result.returned =>
    /\ result.priceImpact.den > 0
    /\ result.priceImpact.num > 0 => result.finalPrice > result.initialPrice
    /\ result.priceImpact.num < 0 => result.finalPrice < result.initialPrice
    /\ isToken0 => result.priceImpact.num <= 0
    /\ ~isToken0 => result.priceImpact.num >= 0
    /\ isToken0 => result.newSqrtPriceX96 <= poolState.sqrtPriceX96
    /\ ~isToken0 => result.newSqrtPriceX96 >= poolState.sqrtPriceX96

C19_WitnessDown ==
  /\ result.returned /\ isToken0
  /\ result.priceImpact.num < 0
  /\ result.crossedTicks > 0

C19_WitnessUp ==
  /\ result.returned /\ ~isToken0
  /\ result.priceImpact.num > 0
  /\ result.crossedTicks > 0

C19_Witness ==
  /\ C19_WitnessDown
  /\ lastQuote.quoted
  /\ lastQuote.result.priceImpact.num > result.priceImpact.num

\* the loop run step by step returns what swapExactInput returns on the
\* rows (compared for the runs of up to AgreeIterations iterations)
AgreeIterations == 100

SwapLoopAgrees ==
  (pc = "done" /\ ~indexer.applied /\ iterations <= AgreeIterations) =>
    result = QuoteOn(db.ticks)

\* C20: a quote during which the ticks table was updated between two loop
\* iterations returns what it would return with the update entirely before
\* or entirely after the whole computation.
C20_SnapshotIsolation ==
  (pc = "done" /\ indexer.applied /\ indexer.inFlight) =>
    \/ result = QuoteOn(indexer.before)
    \/ result = QuoteOn(db.ticks)

C20_Witness ==
  /\ pc = "done" /\ indexer.applied /\ indexer.inFlight
  /\ QuoteOn(indexer.before).returned /\ QuoteOn(db.ticks).returned
  /\ QuoteOn(indexer.before) # QuoteOn(db.ticks)
  /\ result.crossedTicks >= 2
  /\ result # QuoteOn(indexer.before)
  /\ result # QuoteOn(db.ticks)

\* the last iteration was a token1-in step that did not reach its target
StalledUp == Stepped /\ ~isToken0 /\ ~step.reachedNextTick

\* the step had liquidity and a target above its starting price
StepCouldMoveUp ==
  /\ step.oldLiquidity > 0
  /\ step.sqrtPriceNextX96 > step.oldSqrtPriceX96

\* C21 as stated: every token1-in step that does not reach its target has
\* consumed the whole amountRemaining, and the final price is the starting
\* price plus floor(amountInConsumed * 2^96 / liquidity).
C21_StalledPriceFromInput ==
  StalledUp =>
    /\ step.amountInConsumed = step.oldRemaining
    /\ step.oldLiquidity > 0
    /\ currentSqrtPriceX96 =
         step.oldSqrtPriceX96
           + (step.amountInConsumed * Q96) \div step.oldLiquidity
    /\ pc = "done" => result.newSqrtPriceX96 = currentSqrtPriceX96

\* C21 amended: that holds for the steps with liquidity > 0 and a target
\* above the starting price; a step without liquidity consumes nothing and
\* leaves the price where it was.
C21_StalledPriceWithLiquidity ==
  StalledUp =>
    /\ pc \in {"exit", "done"}
    /\ pc = "done" => result.newSqrtPriceX96 = currentSqrtPriceX96
    /\ StepCouldMoveUp =>
         /\ step.amountInConsumed = step.oldRemaining
         /\ currentSqrtPriceX96 =
              step.oldSqrtPriceX96
                + (step.amountInConsumed * Q96) \div step.oldLiquidity
    /\ ~StepCouldMoveUp =>
         /\ step.amountInConsumed = 0
         /\ currentSqrtPriceX96 = step.oldSqrtPriceX96

C21_Witness ==
  /\ StalledUp /\ StepCouldMoveUp /\ pc = "done"
  /\ crossedTicks >= 1
  /\ step.amountInConsumed > 0
  /\ result.newSqrtPriceX96 > step.oldSqrtPriceX96
  /\ result.newSqrtPriceX96 < step.sqrtPriceNextX96

C21_WitnessNoLiquidity ==
  /\ StalledUp /\ step.oldLiquidity = 0 /\ pc = "done"
  /\ step.oldRemaining > 0

\* C22: every iteration of the loop leaves amountRemaining strictly smaller
\* than it found it.
C22_RemainingStrictlyDecreases ==
  [][(iterations' = iterations + 1 /\ ~step'.panicked) =>
       amountRemaining' < amountRemaining]_vars

C22_WitnessFreeCrossing ==
  /\ Stepped /\ step.reachedNextTick
  /\ step.oldLiquidity > 0
  /\ step.amountInConsumed = 0
  /\ amountRemaining = step.oldRemaining
  /\ amountRemaining > 0

\* C25: computeSwapStep returns (0, 0, false) when the liquidity is 0 and
\* when the target price is not on the trade's side of the current price,
\* and the iteration then changes neither amountRemaining, amountOut, the
\* price, the tick nor crossedTicks.
StepCannotMove ==
  \/ currentLiquidity = 0
  \/ isToken0 /\ step'.sqrtPriceNextX96 >= currentSqrtPriceX96
  \/ ~isToken0 /\ step'.sqrtPriceNextX96 <= currentSqrtPriceX96

C25_NullStepChangesNothing ==
  [][(iterations' = iterations + 1 /\ ~step'.panicked /\ StepCannotMove) =>
       /\ step'.amountInConsumed = 0
       /\ step'.amountOutFromTick = 0
       /\ ~step'.reachedNextTick
       /\ pc' = "exit"
       /\ UNCHANGED << amountRemaining, amountOut, currentSqrtPriceX96,
                       currentTick, crossedTicks, currentLiquidity >>]_vars

C25_Witness ==
  /\ Stepped /\ pc = "exit"
  /\ step.oldLiquidity = 0
  /\ step.oldRemaining > 0
  /\ step.amountInConsumed = 0 /\ step.amountOutFromTick = 0
  /\ amountRemaining = step.oldRemaining
  /\ crossedTicks >= 1

C25_WitnessPriceOrder ==
  /\ Stepped /\ pc = "exit"
  /\ step.oldLiquidity > 0
  /\ step.amountInConsumed = 0
  /\ ~step.reachedNextTick

\* C28: a loop that ends before the iteration cap has consumed the whole
\* fee-adjusted input.
C28_EarlyExitConsumedAll ==
  (pc \in {"exit", "done"} /\ iterations < maxIterations) =>
    amountRemaining = 0

\* C23: a crossing whose tick has a row sets the liquidity to
\* max(0, L + liquidityNet) for token1 in and max(0, L - liquidityNet) for
\* token0 in, liquidityNet being that of the row of the new current tick;
\* a crossing whose tick has no row leaves the liquidity as it was.
Max0(n) == IF n < 0 THEN 0 ELSE n

RowsOfTick(tick) == {r \in db.ticks : r.tickIndex = tick}

C23_CrossingAppliesNet ==
  (Stepped /\ step.reachedNextTick /\ ~indexer.applied) =>
    /\ currentTick = step.nextTick
    /\ RowsOfTick(currentTick) = {} => currentLiquidity = step.oldLiquidity
    /\ \A r \in RowsOfTick(currentTick) :
         currentLiquidity =
           IF isToken0
           THEN Max0(step.oldLiquidity - r.liquidityNet)
           ELSE Max0(step.oldLiquidity + r.liquidityNet)

C23_Witness ==
  /\ Stepped /\ step.reachedNextTick /\ isToken0
  /\ crossedTicks = 2
  /\ \E r \in RowsOfTick(currentTick) :
       /\ r.liquidityNet > 0
       /\ currentLiquidity = step.oldLiquidity - r.liquidityNet
       /\ currentLiquidity > 0

C23_WitnessUp ==
  /\ Stepped /\ step.reachedNextTick /\ ~isToken0
  /\ \E r \in RowsOfTick(currentTick) :
       /\ r.liquidityNet < 0
       /\ currentLiquidity = step.oldLiquidity + r.liquidityNet

C23_WitnessNoRow ==
  /\ Stepped /\ step.reachedNextTick
  /\ RowsOfTick(currentTick) = {}
  /\ currentLiquidity = step.oldLiquidity
  /\ crossedTicks >= 2

\* C24: the boundary of a step is the nearest row with liquidityGross > 0
\* strictly beyond the current tick in the trade direction; when there is
\* none it is the current tick minus (token0 in) or plus (token1 in) the
\* tick spacing, which is 1, 10, 60, 200 for the fees 100, 500, 3000, 10000.
InitializedBeyond(tick) ==
  { r.tickIndex : r \in { x \in db.ticks :
      /\ x.liquidityGross > 0
      /\ IF isToken0 THEN x.tickIndex < tick ELSE x.tickIndex > tick } }

SpacingOfFee ==
  [fee \in {100, 500, 3000, 10000} |->
     IF fee = 100 THEN 1 ELSE IF fee = 500 THEN 10
     ELSE IF fee = 3000 THEN 60 ELSE 200]

\* the tick the last iteration started from
StepFromTick == IF step.panicked THEN currentTick ELSE step.oldTick

C24_NextBoundary ==
  (step.ran /\ ~indexer.applied) =>
    IF InitializedBeyond(StepFromTick) = {}
    THEN poolState.fee \in DOMAIN SpacingOfFee =>
           step.nextTick =
             IF isToken0
             THEN StepFromTick - SpacingOfFee[poolState.fee]
             ELSE StepFromTick + SpacingOfFee[poolState.fee]
    ELSE /\ step.nextTick \in InitializedBeyond(StepFromTick)
         /\ \A t \in InitializedBeyond(StepFromTick) :
              IF isToken0 THEN t <= step.nextTick ELSE t >= step.nextTick

C24_Witness ==
  /\ Stepped /\ isToken0
  /\ poolState.fee = 100
  /\ step.oldTick - step.nextTick > 1
  /\ \E r \in db.ticks :
       /\ r.liquidityGross = 0
       /\ r.tickIndex < step.oldTick /\ r.tickIndex > step.nextTick

C24_WitnessSpacing ==
  /\ Stepped /\ ~isToken0
  /\ InitializedBeyond(step.oldTick) = {}
  /\ db.ticks # {}
  /\ step.nextTick = step.oldTick + 200

\* C26: in every iteration, whatever the liquidity and the order of the
\* prices, the step reaches its target exactly when amountRemaining is at
\* least the threshold of calculateMinAmountInToCrossTick.
C26_ThresholdDecidesCrossing ==
  Stepped =>
    (step.reachedNextTick <=>
       step.oldRemaining >= step.minAmountInToCrossTick)

C26_WitnessAgree ==
  /\ Stepped /\ step.oldLiquidity > 0
  /\ step.minAmountInToCrossTick > 0
  /\ step.reachedNextTick
  /\ step.oldRemaining = step.minAmountInToCrossTick

\* both boundaries lie beyond the current price in the trade direction,
\* the near one strictly nearer than the far one
GapsOrdered ==
  /\ conv.op = "thresholds"
  /\ conv.liquidity > 0
  /\ IF isToken0
     THEN /\ conv.farX96 < conv.nearX96
          /\ conv.nearX96 < conv.sqrtPriceCurrentX96
     ELSE /\ conv.farX96 > conv.nearX96
          /\ conv.nearX96 > conv.sqrtPriceCurrentX96

C29_StalledPriceInsideInterval ==
  (Stepped /\ ~step.reachedNextTick) =>
    /\ IF isToken0
       THEN currentSqrtPriceX96 <= step.oldSqrtPriceX96
       ELSE currentSqrtPriceX96 >= step.oldSqrtPriceX96
    /\ \/ /\ step.oldSqrtPriceX96 <= currentSqrtPriceX96
          /\ currentSqrtPriceX96 <= step.sqrtPriceNextX96
       \/ /\ step.sqrtPriceNextX96 <= currentSqrtPriceX96
          /\ currentSqrtPriceX96 <= step.oldSqrtPriceX96
    /\ pc = "done" => result.newSqrtPriceX96 = currentSqrtPriceX96

C29_Witness ==
  /\ Stepped /\ ~step.reachedNextTick /\ isToken0 /\ pc = "done"
  /\ crossedTicks >= 1
  /\ result.newSqrtPriceX96 < step.oldSqrtPriceX96
  /\ result.newSqrtPriceX96 > step.sqrtPriceNextX96

C29_WitnessUp ==
  /\ Stepped /\ ~step.reachedNextTick /\ ~isToken0 /\ pc = "done"
  /\ result.newSqrtPriceX96 > step.oldSqrtPriceX96
  /\ result.newSqrtPriceX96 < step.sqrtPriceNextX96
  /\ step.oldRemaining + 1 = step.minAmountInToCrossTick

\* C30: within one quote every crossing moves currentTick strictly in the
\* trade direction (down for token0 in, up for token1 in) and nothing else
\* moves it, so no tick is crossed twice.
C30_TickStrictlyMonotone ==
  [][(pc = "loop" /\ pc' # "start") =>
       IF iterations' = iterations + 1 /\ ~step'.panicked
          /\ step'.reachedNextTick
       THEN /\ currentTick' = step'.nextTick
            /\ IF isToken0
               THEN currentTick' < currentTick
               ELSE currentTick' > currentTick
       ELSE currentTick' = currentTick]_vars

C30_Witness ==
  /\ Stepped /\ step.reachedNextTick /\ isToken0
  /\ crossedTicks = 3
  /\ currentTick < step.oldTick
  /\ step.oldTick < poolState.tick
  /\ RowsOfTick(currentTick) # {}

====
